---- MODULE Spec2Model ----
(***************************************************************************)
(* Pharmacy backend (app.py, models.py): the relational store of users,    *)
(* patients, drugs, prescriptions and prescription-drug associations, and  *)
(* the request handlers that read and write it.  Every handler is a pure   *)
(* function from (store, request, commit outcome) to (store, response);    *)
(* the actions apply these functions to the current store, and the         *)
(* properties state what a handler answers and leaves behind in every      *)
(* reachable store.                                                        *)
(***************************************************************************)
EXTENDS Integers, Sequences, FiniteSets, TLC

(* ------------------------------ bounds --------------------------------- *)
\* requests that change the store, over a whole run
MaxWrites == 3

\* values requests are drawn from ("" is a missing or empty JSON field)
Names == {"Jane Smith", "John Doe"}
FileNumbers == {"JS001", "JD001"}
DrugNames == {"Amoxicillin", "Panadol"}
Statuses == {"pending", "ready", "dispensed"}
\* doctor_id values: 0 is missing/falsy, 1 the doctor, 2 the pharmacist,
\* 3 no user at all
DoctorIdInputs == {0, 1, 2, 3}
\* what a db.session.commit() can do
CommitOutcomes == {"ok", "patient_commit_fails", "commit_fails"}
\* the threads of the server that handle requests at the same time
Workers == {"w1", "w2"}

(* ------------------------------ state ---------------------------------- *)
VARIABLES
    users,          \* users table: sequence of rows, id = index
    patients,       \* patients table: sequence of rows, id = index
    drugs,          \* drugs table: sequence of rows, id = index
    prescriptions,  \* prescriptions table: sequence of rows, id = index
    association,    \* prescription_drug_association: set of <<prescription_id, drug_id>>
    clock,          \* datetime.utcnow(), as a counter
    requested,      \* history: the name, file number and drugs each prescription
                    \* was requested with
    writes,         \* history: how many requests have changed the store
    inflight        \* per worker: the create_prescription request that has found
                    \* no patient for its file number and has not inserted one yet

vars == <<users, patients, drugs, prescriptions, association, clock, requested,
          writes, inflight>>

\* the persistent store as one value
DB == [users |-> users, patients |-> patients, drugs |-> drugs,
       prescriptions |-> prescriptions, association |-> association,
       clock |-> clock]

(* ----------------------------- helpers --------------------------------- *)
Min(S) == CHOOSE x \in S : \A y \in S : x <= y
Max(S) == CHOOSE x \in S : \A y \in S : x >= y

RECURSIVE SortAsc(_)
\* the elements of a finite set of integers, ascending
SortAsc(S) == IF S = {} THEN <<>> ELSE <<Min(S)>> \o SortAsc(S \ {Min(S)})

Range(s) == {s[i] : i \in DOMAIN s}

\* jsonify(...), status
Response(op, code, message, body) ==
    [op |-> op, code |-> code, message |-> message, body |-> body]

Result(db, r) == [db |-> db, resp |-> r]

NoBody == <<>>

(* --------------------------- create_prescription ----------------------- *)
\* a lookup of the user that forgets the role filter
FindDoctorAnyRole(db, doctor_id) ==
    IF doctor_id \in DOMAIN db.users THEN doctor_id ELSE 0

\* User.query.filter_by(id=doctor_id, role='doctor').first(); 0 is None
FindDoctor(db, doctor_id) ==
    IF doctor_id \in DOMAIN db.users /\ db.users[doctor_id].role = "doctor"
    THEN doctor_id ELSE 0

\* a lookup of the patient by name instead of by file number
FindPatientByName(db, name, file_number) ==
    LET S == {i \in DOMAIN db.patients : db.patients[i].name = name}
    IN IF S = {} THEN 0 ELSE Min(S)

\* Patient.query.filter_by(file_number=...).first(); 0 is None
FindPatient(db, name, file_number) ==
    LET S == {i \in DOMAIN db.patients : db.patients[i].file_number = file_number}
    IN IF S = {} THEN 0 ELSE Min(S)

\* the UNIQUE constraint on patients.file_number
PatientInsertAllowed(db, file_number) ==
    \A i \in DOMAIN db.patients : db.patients[i].file_number # file_number

\* an insert that skips the UNIQUE check of the store
InsertPatientUnchecked(db, data, outcome) ==
    IF outcome = "patient_commit_fails"
    THEN [ok |-> FALSE, db |-> db, patient_id |-> 0]
    ELSE [ok |-> TRUE,
          db |-> [db EXCEPT !.patients =
                     Append(@, [name |-> data.patient_name,
                                file_number |-> data.patient_file_number])],
          patient_id |-> Len(db.patients) + 1]

\* Patient(name=..., file_number=...), db.session.add, db.session.commit:
\* the commit fails when the store fails or refuses the file number, and
\* the rollback leaves the store as it was
InsertPatient(db, data, outcome) ==
    IF outcome = "patient_commit_fails"
       \/ ~PatientInsertAllowed(db, data.patient_file_number)
    THEN [ok |-> FALSE, db |-> db, patient_id |-> 0]
    ELSE [ok |-> TRUE,
          db |-> [db EXCEPT !.patients =
                     Append(@, [name |-> data.patient_name,
                                file_number |-> data.patient_file_number])],
          patient_id |-> Len(db.patients) + 1]

\* a resolution that writes the supplied name into the patient it found
ResolvePatientRenaming(db, data, outcome) ==
    LET patient == FindPatient(db, data.patient_name, data.patient_file_number)
    IN IF patient # 0
       THEN [ok |-> TRUE,
             db |-> [db EXCEPT !.patients[patient].name = data.patient_name],
             patient_id |-> patient]
       ELSE InsertPatient(db, data, outcome)

\* "Find or create patient": a patient that is found is used as it is
ResolvePatient(db, data, outcome) ==
    LET patient == FindPatient(db, data.patient_name, data.patient_file_number)
    IN IF patient # 0
       THEN [ok |-> TRUE, db |-> db, patient_id |-> patient]
       ELSE InsertPatient(db, data, outcome)

\* a validation that looks at the first entry only
ValidateFirstDrugOnly(db, items, i) ==
    IF i > Len(items) THEN [ok |-> TRUE, message |-> "", drug_id |-> 0]
    ELSE IF items[i] = 0
         THEN [ok |-> FALSE, message |-> "Each drug entry must contain a 'drug_id'",
               drug_id |-> 0]
    ELSE IF items[i] \notin DOMAIN db.drugs
         THEN [ok |-> FALSE, message |-> "Drug with ID not found", drug_id |-> items[i]]
    ELSE [ok |-> TRUE, message |-> "", drug_id |-> 0]

\* a validation that checks that each entry has a drug_id and never looks
\* the drug up
ValidateDrugIdsPresent(db, items, i) ==
    IF \E k \in DOMAIN items : k >= i /\ items[k] = 0
    THEN [ok |-> FALSE, message |-> "Each drug entry must contain a 'drug_id'",
          drug_id |-> 0]
    ELSE [ok |-> TRUE, message |-> "", drug_id |-> 0]

\* a validation that looks at every entry and reports the last that fails
ValidateDrugsLastMissing(db, items, i) ==
    LET bad == {k \in DOMAIN items : k >= i /\ items[k] \notin DOMAIN db.drugs}
    IN IF bad = {} THEN [ok |-> TRUE, message |-> "", drug_id |-> 0]
       ELSE IF items[Max(bad)] = 0
       THEN [ok |-> FALSE, message |-> "Each drug entry must contain a 'drug_id'",
             drug_id |-> 0]
       ELSE [ok |-> FALSE, message |-> "Drug with ID not found",
             drug_id |-> items[Max(bad)]]

RECURSIVE ValidateDrugs(_, _, _)
\* the validation loop over drugs_data, from entry i on: the first entry
\* that fails decides the response
ValidateDrugs(db, items, i) ==
    IF i > Len(items) THEN [ok |-> TRUE, message |-> "", drug_id |-> 0]
    ELSE IF items[i] = 0
         THEN [ok |-> FALSE, message |-> "Each drug entry must contain a 'drug_id'",
               drug_id |-> 0]
    ELSE IF items[i] \notin DOMAIN db.drugs
         THEN [ok |-> FALSE, message |-> "Drug with ID not found", drug_id |-> items[i]]
    ELSE ValidateDrugs(db, items, i + 1)

\* a flush that writes the row of the first drug only
AssociationRowsFirstOnly(prescription_id, items) ==
    [i \in {1} |-> <<prescription_id, items[1]>>]

\* the rows the flush writes for new_prescription.prescribed_drugs
AssociationRows(prescription_id, items) ==
    [i \in DOMAIN items |-> <<prescription_id, items[i]>>]

\* an association table without a primary key
AssociationInsertUnchecked(db, rows) == TRUE

\* the composite primary key (prescription_id, drug_id): inserting the same
\* row twice is an IntegrityError
AssociationInsertAllowed(db, rows) ==
    /\ \A i, j \in DOMAIN rows : i # j => rows[i] # rows[j]
    /\ \A i \in DOMAIN rows : rows[i] \notin db.association

\* a constructor call with the two foreign keys exchanged
NewPrescriptionSwapped(db, patient_id, doctor_id) ==
    [patient_id |-> doctor_id, doctor_id |-> patient_id,
     status |-> "pending", created_at |-> db.clock]

\* Prescription(patient_id=..., doctor_id=...) with the column defaults
NewPrescription(db, patient_id, doctor_id) ==
    [patient_id |-> patient_id, doctor_id |-> doctor_id,
     status |-> "pending", created_at |-> db.clock]

\* all([patient_name, patient_file_number, doctor_id, drugs_data])
AllFieldsPresent(data) ==
    /\ data.patient_name # ""
    /\ data.patient_file_number # ""
    /\ data.doctor_id # 0
    /\ (~data.drugs_is_list \/ data.drugs # <<>>)

\* a commit that fails after the prescription row is written and before its
\* association rows are
CreateWithPatientPartial(db, patient_id, doctor_id, data, outcome) ==
    LET v == ValidateDrugs(db, data.drugs, 1)
        id == Len(db.prescriptions) + 1
        rows == AssociationRows(id, data.drugs)
        row == NewPrescription(db, patient_id, doctor_id)
    IN IF ~v.ok
       THEN Result(db, Response("create_prescription", 400, v.message,
                                [drug_id |-> v.drug_id]))
       ELSE IF outcome = "commit_fails" \/ ~AssociationInsertAllowed(db, rows)
       THEN Result([db EXCEPT !.prescriptions = Append(@, row), !.clock = @ + 1],
                   Response("create_prescription", 500,
                            "Error creating prescription", NoBody))
       ELSE Result([db EXCEPT !.prescriptions = Append(@, row),
                              !.association = @ \cup Range(rows),
                              !.clock = @ + 1],
                   Response("create_prescription", 201,
                            "Prescription created successfully",
                            [prescription_id |-> id, status |-> row.status,
                             created_at |-> row.created_at]))

\* steps after the patient is resolved: drug validation, construction, commit
CreateWithPatient(db, patient_id, doctor_id, data, outcome) ==
    LET v == ValidateDrugs(db, data.drugs, 1)
        id == Len(db.prescriptions) + 1
        rows == AssociationRows(id, data.drugs)
        row == NewPrescription(db, patient_id, doctor_id)
    IN IF ~v.ok
       THEN Result(db, Response("create_prescription", 400, v.message,
                                [drug_id |-> v.drug_id]))
       ELSE IF outcome = "commit_fails" \/ ~AssociationInsertAllowed(db, rows)
       THEN Result(db, Response("create_prescription", 500,
                                "Error creating prescription", NoBody))
       ELSE Result([db EXCEPT !.prescriptions = Append(@, row),
                              !.association = @ \cup Range(rows),
                              !.clock = @ + 1],
                   Response("create_prescription", 201,
                            "Prescription created successfully",
                            [prescription_id |-> id, status |-> row.status,
                             created_at |-> row.created_at]))

\* the checks of the body and of the doctor; code 0 lets the request pass
CheckRequest(db, data) ==
    IF ~data.json
    THEN Response("create_prescription", 400, "Request body must be JSON", NoBody)
    ELSE IF ~AllFieldsPresent(data)
    THEN Response("create_prescription", 400, "Missing required fields", NoBody)
    ELSE IF ~data.drugs_is_list
    THEN Response("create_prescription", 400, "Drugs must be a non-empty list", NoBody)
    ELSE IF FindDoctor(db, data.doctor_id) = 0
    THEN Response("create_prescription", 403, "Invalid or unauthorized doctor ID",
                  NoBody)
    ELSE Response("create_prescription", 0, "", NoBody)

\* a handler that takes its patient back when the drug validation fails
CreateResolvedRestoring(db, resolved, data, outcome) ==
    IF ~resolved.ok
    THEN Result(db, Response("create_prescription", 500,
                             "Error creating patient", NoBody))
    ELSE LET r == CreateWithPatient(resolved.db, resolved.patient_id,
                                    FindDoctor(db, data.doctor_id), data, outcome)
         IN IF r.resp.code = 400 THEN Result(db, r.resp) ELSE r

\* the handler from the outcome of the patient resolution on
CreateResolved(db, resolved, data, outcome) ==
    IF ~resolved.ok
    THEN Result(db, Response("create_prescription", 500,
                             "Error creating patient", NoBody))
    ELSE CreateWithPatient(resolved.db, resolved.patient_id,
                           FindDoctor(db, data.doctor_id), data, outcome)

\* a handler that finds or creates the patient before it looks the doctor up
CreatePrescriptionPatientFirst(db, data, outcome) ==
    LET checked == CheckRequest(db, data)
        resolved == ResolvePatient(db, data, outcome)
    IN IF checked.code = 400 THEN Result(db, checked)
       ELSE IF ~resolved.ok
       THEN Result(db, Response("create_prescription", 500,
                                "Error creating patient", NoBody))
       ELSE IF checked.code = 403 THEN Result(resolved.db, checked)
       ELSE CreateWithPatient(resolved.db, resolved.patient_id,
                              FindDoctor(db, data.doctor_id), data, outcome)

\* POST /prescriptions
CreatePrescription(db, data, outcome) ==
    IF CheckRequest(db, data).code # 0
    THEN Result(db, CheckRequest(db, data))
    ELSE CreateResolved(db, ResolvePatient(db, data, outcome), data, outcome)

\* request bodies of POST /prescriptions
CreateBody(json, name, fn, doctor_id, is_list, items) ==
    [json |-> json, patient_name |-> name, patient_file_number |-> fn,
     doctor_id |-> doctor_id, drugs_is_list |-> is_list, drugs |-> items]

\* drug_id values of a request entry: 0 is a missing/falsy drug_id, then the
\* ids of the catalog and two ids past it
DrugIdInputs(db) == 0 .. (Len(db.drugs) + 2)

\* the drugs lists of a request: one or two entries
DrugLists(db) ==
    {<<a>> : a \in DrugIdInputs(db)} \cup {<<a, b>> : a, b \in DrugIdInputs(db)}

\* The requests the model sends.  A field the handler does not read on a
\* path is held at one value on that path: the body without JSON, each
\* required field missing in turn, a drugs value that is no list, every
\* doctor_id with every file number, and, for the doctor, every name, file
\* number and drugs list.
CreateRequests(db) ==
    {CreateBody(FALSE, "", "", 0, TRUE, <<>>),
     CreateBody(TRUE, "", "JS001", 1, TRUE, <<1>>),
     CreateBody(TRUE, "Jane Smith", "", 1, TRUE, <<1>>),
     CreateBody(TRUE, "Jane Smith", "JS001", 1, TRUE, <<>>),
     CreateBody(TRUE, "Jane Smith", "JS001", 1, FALSE, <<>>)}
    \cup {CreateBody(TRUE, "Jane Smith", f, d, TRUE, <<1>>) :
            f \in FileNumbers, d \in DoctorIdInputs}
    \cup {CreateBody(TRUE, n, f, 1, TRUE, l) :
            n \in Names, f \in FileNumbers, l \in DrugLists(db)}

\* the requests the model lets overlap: the doctor's, for every name and
\* file number
ConcurrentRequests ==
    {CreateBody(TRUE, n, f, 1, TRUE, <<1>>) : n \in Names, f \in FileNumbers}

\* a worker that handles no create_prescription
Idle == CreateBody(FALSE, "", "", 0, TRUE, <<>>)

(* ------------------------------ add_drug -------------------------------- *)
\* the handler with the duplicate check that app.py:233-236 leaves commented
\* out
AddDrugUnique(db, data, outcome) ==
    IF ~data.json
    THEN Result(db, Response("add_drug", 400, "Request body must be JSON", NoBody))
    ELSE IF data.name = "" \/ data.strength = "" \/ data.instructions = ""
            \/ data.warnings = ""
    THEN Result(db, Response("add_drug", 400, "Missing required fields", NoBody))
    ELSE IF \E d \in DOMAIN db.drugs :
               db.drugs[d].name = data.name /\ db.drugs[d].strength = data.strength
    THEN Result(db, Response("add_drug", 409,
                             "Drug with this name and strength already exists", NoBody))
    ELSE IF outcome = "commit_fails"
    THEN Result(db, Response("add_drug", 500, "Error adding drug", NoBody))
    ELSE LET row == [name |-> data.name, strength |-> data.strength,
                     instructions |-> data.instructions,
                     warnings |-> data.warnings]
         IN Result([db EXCEPT !.drugs = Append(@, row)],
                   Response("add_drug", 201, "Drug added successfully",
                            [id |-> Len(db.drugs) + 1] @@ row))

\* POST /drugs
AddDrug(db, data, outcome) ==
    IF ~data.json
    THEN Result(db, Response("add_drug", 400, "Request body must be JSON", NoBody))
    ELSE IF data.name = "" \/ data.strength = "" \/ data.instructions = ""
            \/ data.warnings = ""
    THEN Result(db, Response("add_drug", 400, "Missing required fields", NoBody))
    ELSE IF outcome = "commit_fails"
    THEN Result(db, Response("add_drug", 500, "Error adding drug", NoBody))
    ELSE LET row == [name |-> data.name, strength |-> data.strength,
                     instructions |-> data.instructions,
                     warnings |-> data.warnings]
         IN Result([db EXCEPT !.drugs = Append(@, row)],
                   Response("add_drug", 201, "Drug added successfully",
                            [id |-> Len(db.drugs) + 1] @@ row))

DrugBody(json, name, strength, instructions, warnings) ==
    [json |-> json, name |-> name, strength |-> strength,
     instructions |-> instructions, warnings |-> warnings]

\* the body without JSON, each required field missing in turn, and every name
DrugRequests ==
    {DrugBody(FALSE, "", "", "", ""),
     DrugBody(TRUE, "", "250mg", "Take one tablet every 8 hours", "May cause allergic reaction."),
     DrugBody(TRUE, "Panadol", "", "Take one tablet every 8 hours", "May cause allergic reaction."),
     DrugBody(TRUE, "Panadol", "250mg", "", "May cause allergic reaction."),
     DrugBody(TRUE, "Panadol", "250mg", "Take one tablet every 8 hours", "")}
    \cup {DrugBody(TRUE, n, "250mg", "Take one tablet every 8 hours",
                   "May cause allergic reaction.") : n \in DrugNames}

(* ----------------------------- read views ------------------------------ *)
\* the JSON of one drug
DrugInfo(db, d) ==
    [id |-> d, name |-> db.drugs[d].name, strength |-> db.drugs[d].strength,
     instructions |-> db.drugs[d].instructions, warnings |-> db.drugs[d].warnings]

\* a join that forgets the prescription_id condition
AllDrugs(db, prescription_id) == SortAsc(DOMAIN db.drugs)

\* prescription.prescribed_drugs, loaded in a new session: the relationship
\* has no order_by, and the SQLite store (app.py:10) answers the join through
\* the primary-key index of the association table, in ascending drug_id
PrescribedDrugs(db, prescription_id) ==
    SortAsc({d \in DOMAIN db.drugs : <<prescription_id, d>> \in db.association})

\* drug.prescriptions
DrugPrescriptions(db, d) ==
    {p \in DOMAIN db.prescriptions : <<p, d>> \in db.association}

\* GET /prescriptions/<id>
GetPrescription(db, id) ==
    IF id \notin DOMAIN db.prescriptions
    THEN Result(db, Response("get_prescription", 404, "Prescription not found", NoBody))
    ELSE LET p == db.prescriptions[id]
             ds == PrescribedDrugs(db, id)
         IN Result(db, Response("get_prescription", 200, "",
                [id |-> id,
                 patient |-> [id |-> p.patient_id,
                              name |-> db.patients[p.patient_id].name,
                              file_number |-> db.patients[p.patient_id].file_number],
                 doctor |-> [id |-> p.doctor_id,
                             username |-> db.users[p.doctor_id].username],
                 status |-> p.status,
                 created_at |-> p.created_at,
                 prescribed_drugs |-> [i \in DOMAIN ds |-> DrugInfo(db, ds[i])]]))

(* ------------------------ get_prescription_label ------------------------ *)
\* a label that prints the instructions as the strength and the strength as
\* the instructions
LabelStringSwapped(patient, drug, today) ==
    <<<<"name of patient", patient.name>>,
      <<"file number", patient.file_number>>,
      <<"drug name", drug.name>>,
      <<"strength", drug.instructions>>,
      <<"instructions", drug.strength>>,
      <<"warning", drug.warnings>>,
      <<"date", today>>>>

\* label_string: the lines "key: value" of one label, in their order
LabelString(patient, drug, today) ==
    <<<<"name of patient", patient.name>>,
      <<"file number", patient.file_number>>,
      <<"drug name", drug.name>>,
      <<"strength", drug.strength>>,
      <<"instructions", drug.instructions>>,
      <<"warning", drug.warnings>>,
      <<"date", today>>>>

\* a handler that marks the prescription dispensed when its labels are made
GetPrescriptionLabelDispensing(db, id) ==
    IF id \notin DOMAIN db.prescriptions
    THEN Result(db, Response("get_prescription_label", 404,
                             "Prescription not found", NoBody))
    ELSE LET patient == db.patients[db.prescriptions[id].patient_id]
             ds == PrescribedDrugs(db, id)
         IN Result([db EXCEPT !.prescriptions[id].status = "dispensed"],
                   Response("get_prescription_label", 200, "",
                [prescription_id |-> id,
                 labels |-> [i \in DOMAIN ds |->
                               LabelString(patient, db.drugs[ds[i]], db.clock)]]))

\* GET /prescriptions/<id>/label; datetime.date.today() is the clock
GetPrescriptionLabel(db, id) ==
    IF id \notin DOMAIN db.prescriptions
    THEN Result(db, Response("get_prescription_label", 404,
                             "Prescription not found", NoBody))
    ELSE LET patient == db.patients[db.prescriptions[id].patient_id]
             ds == PrescribedDrugs(db, id)
         IN Result(db, Response("get_prescription_label", 200, "",
                [prescription_id |-> id,
                 labels |-> [i \in DOMAIN ds |->
                               LabelString(patient, db.drugs[ds[i]], db.clock)]]))

(* ------------------------------ get_drugs ------------------------------- *)
\* GET /drugs: Drug.query.all(), in the rowid order of the store
GetDrugs(db) ==
    Result(db, Response("get_drugs", 200, "",
                        [d \in DOMAIN db.drugs |-> DrugInfo(db, d)]))

(* ----------------------- update_prescription_status --------------------- *)
\* an update that only lets a pending prescription move
SetStatusFromPending(db, id, new_status) ==
    IF db.prescriptions[id].status = "pending"
    THEN [db EXCEPT !.prescriptions[id].status = new_status]
    ELSE db

\* an update that also stamps the row with the time of the update
SetStatusStamped(db, id, new_status) ==
    [db EXCEPT !.prescriptions[id].status = new_status,
               !.prescriptions[id].created_at = db.clock,
               !.clock = @ + 1]

\* an UPDATE without its WHERE clause
SetStatusAll(db, id, new_status) ==
    [db EXCEPT !.prescriptions =
        [p \in DOMAIN @ |-> [@[p] EXCEPT !.status = new_status]]]

\* prescription.status = new_status
SetStatus(db, id, new_status) ==
    [db EXCEPT !.prescriptions[id].status = new_status]

\* a handler whose failed commit leaves the new status in the store
UpdatePrescriptionStatusNoRollback(db, id, data, outcome) ==
    IF ~data.json
    THEN Result(db, Response("update_prescription_status", 400,
                             "Request body must be JSON", NoBody))
    ELSE IF data.status = ""
    THEN Result(db, Response("update_prescription_status", 400,
                             "New status is required", NoBody))
    ELSE IF id \notin DOMAIN db.prescriptions
    THEN Result(db, Response("update_prescription_status", 404,
                             "Prescription not found", NoBody))
    ELSE IF outcome = "commit_fails"
    THEN Result(SetStatus(db, id, data.status),
                Response("update_prescription_status", 500,
                         "Error updating prescription status", NoBody))
    ELSE LET after == SetStatus(db, id, data.status)
             p == after.prescriptions[id]
             ds == PrescribedDrugs(after, id)
         IN Result(after, Response("update_prescription_status", 200,
                "Prescription status updated successfully",
                [id |-> id, patient_id |-> p.patient_id, doctor_id |-> p.doctor_id,
                 status |-> p.status, created_at |-> p.created_at,
                 prescribed_drugs |-> [i \in DOMAIN ds |-> DrugInfo(after, ds[i])]]))

\* a handler that looks the prescription up before it checks the status
UpdatePrescriptionStatusLookupFirst(db, id, data, outcome) ==
    IF ~data.json
    THEN Result(db, Response("update_prescription_status", 400,
                             "Request body must be JSON", NoBody))
    ELSE IF id \notin DOMAIN db.prescriptions
    THEN Result(db, Response("update_prescription_status", 404,
                             "Prescription not found", NoBody))
    ELSE IF data.status = ""
    THEN Result(db, Response("update_prescription_status", 400,
                             "New status is required", NoBody))
    ELSE IF outcome = "commit_fails"
    THEN Result(db, Response("update_prescription_status", 500,
                             "Error updating prescription status", NoBody))
    ELSE LET after == SetStatus(db, id, data.status)
             p == after.prescriptions[id]
             ds == PrescribedDrugs(after, id)
         IN Result(after, Response("update_prescription_status", 200,
                "Prescription status updated successfully",
                [id |-> id, patient_id |-> p.patient_id, doctor_id |-> p.doctor_id,
                 status |-> p.status, created_at |-> p.created_at,
                 prescribed_drugs |-> [i \in DOMAIN ds |-> DrugInfo(after, ds[i])]]))

\* PUT /prescriptions/<id>/status
UpdatePrescriptionStatus(db, id, data, outcome) ==
    IF ~data.json
    THEN Result(db, Response("update_prescription_status", 400,
                             "Request body must be JSON", NoBody))
    ELSE IF data.status = ""
    THEN Result(db, Response("update_prescription_status", 400,
                             "New status is required", NoBody))
    ELSE IF id \notin DOMAIN db.prescriptions
    THEN Result(db, Response("update_prescription_status", 404,
                             "Prescription not found", NoBody))
    ELSE IF outcome = "commit_fails"
    THEN Result(db, Response("update_prescription_status", 500,
                             "Error updating prescription status", NoBody))
    ELSE LET after == SetStatus(db, id, data.status)
             p == after.prescriptions[id]
             ds == PrescribedDrugs(after, id)
         IN Result(after, Response("update_prescription_status", 200,
                "Prescription status updated successfully",
                [id |-> id, patient_id |-> p.patient_id, doctor_id |-> p.doctor_id,
                 status |-> p.status, created_at |-> p.created_at,
                 prescribed_drugs |-> [i \in DOMAIN ds |-> DrugInfo(after, ds[i])]]))

\* the body without JSON, the status missing, and every status
StatusRequests ==
    {[json |-> FALSE, status |-> ""], [json |-> TRUE, status |-> ""]}
    \cup {[json |-> TRUE, status |-> s] : s \in Statuses}

\* prescription ids of a URL: the ids of the table and one id past it
PrescriptionIdInputs(db) == 1 .. (Len(db.prescriptions) + 1)

(* ------------------------------ reporting ------------------------------- *)
\* Prescription.query.filter_by(status='pending')
PendingPrescriptions(db) ==
    {p \in DOMAIN db.prescriptions : db.prescriptions[p].status = "pending"}

\* ORDER BY created_at ASC
Oldest(db, S) ==
    CHOOSE p \in S : \A q \in S :
        db.prescriptions[p].created_at <= db.prescriptions[q].created_at

\* the row of S that ORDER BY created_at DESC puts first
Newest(db, S) ==
    CHOOSE p \in S : \A q \in S :
        db.prescriptions[q].created_at <= db.prescriptions[p].created_at

RECURSIVE OrderByCreatedAtDesc(_, _)
\* .order_by(Prescription.created_at.desc()).all()
OrderByCreatedAtDesc(db, S) ==
    IF S = {} THEN <<>>
    ELSE <<Newest(db, S)>> \o OrderByCreatedAtDesc(db, S \ {Newest(db, S)})

\* GET /dashboard/notifications
GetDashboardNotifications(db) ==
    LET pending == OrderByCreatedAtDesc(db, PendingPrescriptions(db))
    IN Result(db, Response("get_dashboard_notifications", 200, "",
            [i \in DOMAIN pending |->
                [id |-> pending[i],
                 patient_name |-> db.patients[db.prescriptions[pending[i]].patient_id].name,
                 created_at |-> db.prescriptions[pending[i]].created_at]]))

\* a count per name that adds up the drugs of that name
DrugCountsSummed(db, d) ==
    [n \in {db.drugs[x].name : x \in {y \in DOMAIN db.drugs : y >= d}} |->
        Cardinality({row \in db.association :
                        row[2] >= d /\ db.drugs[row[2]].name = n})]

RECURSIVE DrugCounts(_, _)
\* the loop over Drug.query.all() (rowid order), from drug d on:
\* drug_counts[drug.name] = len(drug.prescriptions), a later drug of the
\* same name overwriting an earlier one
DrugCounts(db, d) ==
    IF d > Len(db.drugs) THEN <<>>
    ELSE LET rest == DrugCounts(db, d + 1)
         IN IF db.drugs[d].name \in DOMAIN rest THEN rest
            ELSE rest @@ (db.drugs[d].name :> Cardinality(DrugPrescriptions(db, d)))

\* GET /dashboard/statistics/drug_prescriptions
GetDrugPrescriptionStatistics(db) ==
    Result(db, Response("get_drug_prescription_statistics", 200, "",
                        DrugCounts(db, 1)))

(* ------------------------------ actions --------------------------------- *)
\* the tables after create_all and the provisioning of the two users
Init ==
    /\ users = <<[username |-> "testdoctor", role |-> "doctor"],
                 [username |-> "testpharmacist", role |-> "pharmacist"]>>
    /\ patients = <<>>
    /\ drugs = <<>>
    /\ prescriptions = <<>>
    /\ association = {}
    /\ clock = 1
    /\ requested = <<>>
    /\ writes = 0
    /\ inflight = [w \in Workers |-> Idle]

\* the store a handler leaves becomes the state; its response goes to the
\* client
Apply(r) ==
    /\ users' = r.db.users
    /\ patients' = r.db.patients
    /\ drugs' = r.db.drugs
    /\ prescriptions' = r.db.prescriptions
    /\ association' = r.db.association
    /\ clock' = r.db.clock
    /\ writes' = IF r.db = DB THEN writes ELSE writes + 1
    /\ writes' <= MaxWrites

\* the history of a create_prescription step
Record(r, data) ==
    requested' = IF Len(r.db.prescriptions) > Len(prescriptions)
                 THEN Append(requested,
                             [patient_name |-> data.patient_name,
                              patient_file_number |-> data.patient_file_number,
                              drugs |-> Range(data.drugs)])
                 ELSE requested

\* a request handled with no other request in between
CreateStep(requests, outcomes) ==
    \E data \in requests, outcome \in outcomes :
        \E r \in {CreatePrescription(DB, data, outcome)} :
           Apply(r) /\ Record(r, data) /\ UNCHANGED inflight

AddDrugStep(outcomes) ==
    \E data \in DrugRequests, outcome \in outcomes :
        \E r \in {AddDrug(DB, data, outcome)} :
           Apply(r) /\ UNCHANGED <<requested, inflight>>

UpdateStatusStep(outcomes) ==
    \E id \in PrescriptionIdInputs(DB), data \in StatusRequests, outcome \in outcomes :
        \E r \in {UpdatePrescriptionStatus(DB, id, data, outcome)} :
           Apply(r) /\ UNCHANGED <<requested, inflight>>

create_prescription == CreateStep(CreateRequests(DB), {"ok"})

add_drug == AddDrugStep({"ok"})

update_prescription_status == UpdateStatusStep({"ok"})

get_prescription ==
    \E id \in PrescriptionIdInputs(DB) :
        Apply(GetPrescription(DB, id)) /\ UNCHANGED <<requested, inflight>>

get_drugs ==
    Apply(GetDrugs(DB)) /\ UNCHANGED <<requested, inflight>>

get_prescription_label ==
    \E id \in PrescriptionIdInputs(DB) :
        Apply(GetPrescriptionLabel(DB, id)) /\ UNCHANGED <<requested, inflight>>

get_dashboard_notifications ==
    Apply(GetDashboardNotifications(DB)) /\ UNCHANGED <<requested, inflight>>

get_drug_prescription_statistics ==
    Apply(GetDrugPrescriptionStatistics(DB)) /\ UNCHANGED <<requested, inflight>>

Next ==
    \/ create_prescription
    \/ add_drug
    \/ update_prescription_status
    \/ get_prescription
    \/ get_drugs
    \/ get_prescription_label
    \/ get_dashboard_notifications
    \/ get_drug_prescription_statistics

Spec == Init /\ [][Next]_vars

\* a worker takes a request up to the patient lookup (app.py:50-72) and finds
\* no patient; a request that is refused, or finds its patient, does not
\* depend on what other workers do before it ends (create_prescription)
create_begin ==
    \E w \in Workers, data \in ConcurrentRequests :
        /\ inflight[w] = Idle
        /\ CheckRequest(DB, data).code = 0
        /\ FindPatient(DB, data.patient_name, data.patient_file_number) = 0
        /\ inflight' = [inflight EXCEPT ![w] = data]
        /\ UNCHANGED <<users, patients, drugs, prescriptions, association, clock,
                       requested, writes>>

\* the worker goes on from the patient insert (app.py:73-122) in the store
\* as the other workers have left it
create_resume ==
    \E w \in Workers, outcome \in CommitOutcomes :
        /\ inflight[w] # Idle
        /\ \E r \in {CreateResolved(DB, InsertPatient(DB, inflight[w], outcome),
                                     inflight[w], outcome)} :
              Apply(r) /\ Record(r, inflight[w])
        /\ inflight' = [inflight EXCEPT ![w] = Idle]

\* one of the overlapping requests, handled with no other request in between
create_alone == CreateStep(ConcurrentRequests, CommitOutcomes)

NextConcurrent ==
    \/ create_begin
    \/ create_resume
    \/ create_alone
    \/ add_drug
    \/ update_prescription_status
    \/ get_prescription
    \/ get_dashboard_notifications
    \/ get_drug_prescription_statistics

\* create_prescription requests that overlap
SpecConcurrent == Init /\ [][NextConcurrent]_vars

\* requests whose commit the store fails
create_prescription_commit_fails ==
    CreateStep(CreateRequests(DB), {"patient_commit_fails", "commit_fails"})

add_drug_commit_fails == AddDrugStep({"commit_fails"})

update_prescription_status_commit_fails == UpdateStatusStep({"commit_fails"})

NextFaults ==
    \/ Next
    \/ create_prescription_commit_fails
    \/ add_drug_commit_fails
    \/ update_prescription_status_commit_fails

\* requests one after the other, over a store whose commits may fail
SpecFaults == Init /\ [][NextFaults]_vars

(* ------------------------------ properties ------------------------------ *)
\* a request that passes the field checks of the handler
WellFormed(data) ==
    data.json /\ AllFieldsPresent(data) /\ data.drugs_is_list

\* the patients that carry a file number
PatientsWith(db, file_number) ==
    {i \in DOMAIN db.patients : db.patients[i].file_number = file_number}

\* the drugs the association table links to a prescription
DrugsOf(db, prescription_id) ==
    {row[2] : row \in {x \in db.association : x[1] = prescription_id}}

\* the row a successful create_prescription has added
Created(r) == r.db.prescriptions[Len(r.db.prescriptions)]

\* C1: a create_prescription whose file number already belongs to a patient
\* adds no patient, whatever the commit does, and when it succeeds the new
\* prescription belongs to that patient; so any two prescriptions requested
\* with the same file number have the same patient_id, whatever the names.
C1_IdempotentPatientResolution ==
    /\ \A data \in CreateRequests(DB), outcome \in CommitOutcomes :
         \A r \in {CreatePrescription(DB, data, outcome)} :
            PatientsWith(DB, data.patient_file_number) # {}
            => /\ r.db.patients = patients
               /\ r.resp.code = 201
                  => Created(r).patient_id
                        \in PatientsWith(DB, data.patient_file_number)
    /\ \A p, q \in DOMAIN prescriptions :
         requested[p].patient_file_number = requested[q].patient_file_number
         => prescriptions[p].patient_id = prescriptions[q].patient_id

\* two prescriptions were requested with one file number and two names,
\* and there is one patient
C1_Witness ==
    /\ Len(prescriptions) = 2
    /\ requested[1].patient_file_number = requested[2].patient_file_number
    /\ requested[1].patient_name # requested[2].patient_name
    /\ prescriptions[1].patient_id = prescriptions[2].patient_id
    /\ Len(patients) = 1

\* C2: a well-formed create_prescription whose doctor_id is no user, or a
\* user that is no doctor, is answered 403 and leaves the prescriptions and
\* the associations as they were, whatever the commit would do.
C2_UnauthorizedDoctor ==
    \A data \in CreateRequests(DB), outcome \in CommitOutcomes :
        \A r \in {CreatePrescription(DB, data, outcome)} :
            (/\ WellFormed(data)
             /\ ~(data.doctor_id \in DOMAIN users
                  /\ users[data.doctor_id].role = "doctor"))
            => /\ r.resp.code = 403
               /\ r.db.prescriptions = prescriptions
               /\ r.db.association = association

\* a prescription and its associations are in the store, and a well-formed
\* request of the pharmacist for a file number not yet stored is answered 403
C2_Witness ==
    /\ prescriptions # <<>> /\ association # {}
    /\ \E data \in CreateRequests(DB) :
         /\ WellFormed(data)
         /\ data.doctor_id = 2
         /\ PatientsWith(DB, data.patient_file_number) = {}
         /\ CreatePrescription(DB, data, "ok").resp.code = 403

\* C3: a well-formed create_prescription of the doctor whose entries all
\* carry an id, one of them unknown to the catalog, fails and persists no
\* prescription and no association, also when known ids come first; when
\* the store commits, the failure is the 400 "Drug with ID ... not found".
C3_DrugNotFound ==
    \A data \in CreateRequests(DB), outcome \in CommitOutcomes :
        \A r \in {CreatePrescription(DB, data, outcome)} :
            (/\ WellFormed(data)
             /\ data.doctor_id \in DOMAIN users
             /\ users[data.doctor_id].role = "doctor"
             /\ \A i \in DOMAIN data.drugs : data.drugs[i] # 0
             /\ \E i \in DOMAIN data.drugs : data.drugs[i] \notin DOMAIN drugs)
            => /\ r.resp.code \in {400, 500}
               /\ r.db.prescriptions = prescriptions
               /\ r.db.association = association
               /\ outcome = "ok"
                  => /\ r.resp.code = 400
                     /\ r.resp.message = "Drug with ID not found"

\* a prescription is in the store, and a request of the doctor whose list
\* names a drug of the catalog and then an unknown id is answered
\* "Drug with ID ... not found" for that id
C3_Witness ==
    /\ prescriptions # <<>> /\ drugs # <<>>
    /\ \E data \in CreateRequests(DB) :
         /\ data.doctor_id = 1
         /\ data.drugs = <<1, Len(drugs) + 1>>
         /\ \A r \in {CreatePrescription(DB, data, "ok").resp} :
               /\ r.code = 400
               /\ r.message = "Drug with ID not found"
               /\ r.body.drug_id = Len(drugs) + 1

\* C4: a successful create_prescription adds exactly one prescription and
\* changes no other: the new one is "pending", belongs to the patient that
\* carries the supplied file number and to the supplied doctor, and its
\* associated drugs are exactly the supplied drug ids, as many as
\* get_prescription then lists.
C4_CreatePersistsOnePrescription ==
    \A data \in CreateRequests(DB), outcome \in CommitOutcomes :
        \A r \in {CreatePrescription(DB, data, outcome)} :
            r.resp.code = 201
            => LET id == Len(prescriptions) + 1
                   supplied == {data.drugs[i] : i \in DOMAIN data.drugs}
               IN /\ Len(r.db.prescriptions) = id
                  /\ SubSeq(r.db.prescriptions, 1, id - 1) = prescriptions
                  /\ r.resp.body.prescription_id = id
                  /\ r.resp.body.status = "pending"
                  /\ Created(r).status = "pending"
                  /\ PatientsWith(r.db, data.patient_file_number)
                        = {Created(r).patient_id}
                  /\ Created(r).doctor_id = data.doctor_id
                  /\ DrugsOf(r.db, id) = supplied
                  /\ r.db.association \ association
                        = {<<id, d>> : d \in supplied}
                  /\ association \subseteq r.db.association
                  /\ Len(GetPrescription(r.db, id).resp.body.prescribed_drugs)
                        = Cardinality(supplied)

\* the newest prescription is pending and has two drugs, which
\* get_prescription lists
C4_Witness ==
    /\ prescriptions # <<>>
    /\ Cardinality(DrugsOf(DB, Len(prescriptions))) = 2
    /\ prescriptions[Len(prescriptions)].status = "pending"
    /\ Len(GetPrescription(DB, Len(prescriptions)).resp.body.prescribed_drugs) = 2

\* the ids of the drugs a get_prescription body lists, in its order
ListedDrugIds(body) ==
    [i \in DOMAIN body.prescribed_drugs |-> body.prescribed_drugs[i].id]

C5_WitnessOrder ==
    \E data \in CreateRequests(DB) :
        /\ data.drugs = <<2, 1>>
        /\ \A r \in {CreatePrescription(DB, data, "ok")} :
              /\ r.resp.code = 201
              /\ ListedDrugIds(GetPrescription(r.db, r.resp.body.prescription_id).resp.body)
                    = <<1, 2>>

\* the feed of get_dashboard_notifications in a store
Feed(db) == GetDashboardNotifications(db).resp.body

\* C6: the feed holds exactly the prescriptions whose status is "pending",
\* each once, the newer before the older; a status update to anything else
\* takes its prescription out of the feed and an update to "pending" puts
\* it in.
C6_PendingFeed ==
    /\ {Feed(DB)[i].id : i \in DOMAIN Feed(DB)}
          = {p \in DOMAIN prescriptions : prescriptions[p].status = "pending"}
    /\ \A i, j \in DOMAIN Feed(DB) :
          i < j => /\ Feed(DB)[i].id # Feed(DB)[j].id
                   /\ Feed(DB)[i].created_at >= Feed(DB)[j].created_at
                   /\ prescriptions[Feed(DB)[i].id].created_at
                         >= prescriptions[Feed(DB)[j].id].created_at
    /\ \A i \in DOMAIN Feed(DB) :
          Feed(DB)[i].created_at = prescriptions[Feed(DB)[i].id].created_at
    /\ \A id \in DOMAIN prescriptions, s \in Statuses :
          \A r \in {UpdatePrescriptionStatus(DB, id, [json |-> TRUE, status |-> s], "ok")} :
              (\E i \in DOMAIN Feed(r.db) : Feed(r.db)[i].id = id) <=> (s = "pending")

\* the feed holds two prescriptions, the newer first
C6_Witness ==
    /\ Len(Feed(DB)) = 2
    /\ Feed(DB)[1].created_at > Feed(DB)[2].created_at
    /\ Feed(DB)[1].id > Feed(DB)[2].id

\* the feed leaves out a prescription whose status has been updated
C6_WitnessExcluded ==
    /\ prescriptions # <<>>
    /\ Len(Feed(DB)) < Len(prescriptions)

\* C7 as stated: the statistics map the name of every drug of the catalog to
\* the number of prescriptions that reference that drug, 0 when none does.
C7_DrugPrescriptionCounts ==
    \A counts \in {GetDrugPrescriptionStatistics(DB).resp.body} :
        /\ DOMAIN counts = {drugs[d].name : d \in DOMAIN drugs}
        /\ \A d \in DOMAIN drugs :
              counts[drugs[d].name]
                 = Cardinality({p \in DOMAIN prescriptions : <<p, d>> \in association})

\* C8: update_prescription_status of an existing prescription with a
\* non-empty status succeeds from every current status when the store
\* commits, and the prescription then has the new status.
C8_AnyStatusTransition ==
    \A id \in DOMAIN prescriptions, s \in Statuses :
        \A r \in {UpdatePrescriptionStatus(DB, id, [json |-> TRUE, status |-> s], "ok")} :
            /\ r.resp.code = 200
            /\ r.db.prescriptions[id].status = s
            /\ r.resp.body.status = s

\* a prescription has been moved to "dispensed", and the update that moves
\* it back to "pending" is answered 200
C8_Witness ==
    \E p \in DOMAIN prescriptions :
        /\ prescriptions[p].status = "dispensed"
        /\ UpdatePrescriptionStatus(DB, p, [json |-> TRUE, status |-> "pending"],
                                    "ok").resp.code = 200

\* C9: every prescription references a patient of the patients table and a
\* user of the users table whose role is "doctor".
C9_PatientAndDoctorExist ==
    \A p \in DOMAIN prescriptions :
        /\ prescriptions[p].patient_id \in DOMAIN patients
        /\ prescriptions[p].doctor_id \in DOMAIN users
        /\ users[prescriptions[p].doctor_id].role = "doctor"

\* two prescriptions of two patients are in the store
C9_Witness ==
    /\ Len(prescriptions) = 2
    /\ prescriptions[1].patient_id # prescriptions[2].patient_id

\* C10: every prescription has at least one associated drug, every
\* associated drug is in the catalog, and no step changes the drugs of a
\* prescription that exists.
C10_DrugSetFixed ==
    /\ [](\A p \in DOMAIN prescriptions :
             /\ DrugsOf(DB, p) # {}
             /\ DrugsOf(DB, p) \subseteq DOMAIN drugs)
    /\ [](\A row \in association : row[1] \in DOMAIN prescriptions)
    /\ [][\A p \in DOMAIN prescriptions :
             /\ p \in DOMAIN prescriptions'
             /\ {row \in association' : row[1] = p}
                   = {row \in association : row[1] = p}]_vars

\* a prescription whose status has been updated still has its drug
C10_Witness ==
    \E p \in DOMAIN prescriptions :
        /\ prescriptions[p].status # "pending"
        /\ DrugsOf(DB, p) # {}

\* a request of a doctor whose fields are present and whose drugs are all in
\* the catalog
Valid(db, data) ==
    /\ WellFormed(data)
    /\ data.doctor_id \in DOMAIN db.users
    /\ db.users[data.doctor_id].role = "doctor"
    /\ \A i \in DOMAIN data.drugs : data.drugs[i] \in DOMAIN db.drugs

\* C11: every association belongs to a prescription and every prescription
\* has the associations of all the drugs it was requested with; a
\* create_prescription answered "Error creating prescription" leaves
\* prescriptions and associations as they were and leaves the patient of its
\* file number in the store, new or not; and a valid request whose final
\* commit fails is answered so, with status 500.
C11_AtomicPrescriptionCommit ==
    /\ \A row \in association : row[1] \in DOMAIN prescriptions
    /\ \A p \in DOMAIN prescriptions : DrugsOf(DB, p) = requested[p].drugs
    /\ \A data \in CreateRequests(DB), outcome \in CommitOutcomes :
         \A r \in {CreatePrescription(DB, data, outcome)} :
            /\ r.resp.message = "Error creating prescription"
               => /\ r.resp.code = 500
                  /\ r.db.prescriptions = prescriptions
                  /\ r.db.association = association
                  /\ r.db.patients =
                        IF PatientsWith(DB, data.patient_file_number) # {}
                        THEN patients
                        ELSE Append(patients,
                                    [name |-> data.patient_name,
                                     file_number |-> data.patient_file_number])
            /\ (Valid(DB, data) /\ outcome = "commit_fails")
               => r.resp.message = "Error creating prescription"

\* a prescription with two drugs is in the store, and a valid request for a
\* file number not yet stored, whose final commit fails, leaves its patient
\* and is answered 500
C11_Witness ==
    /\ \E p \in DOMAIN prescriptions : Cardinality(DrugsOf(DB, p)) = 2
    /\ \E data \in CreateRequests(DB) :
         /\ Valid(DB, data) /\ Len(data.drugs) = 2
         /\ PatientsWith(DB, data.patient_file_number) = {}
         /\ \A r \in {CreatePrescription(DB, data, "commit_fails")} :
               /\ r.resp.code = 500
               /\ Len(r.db.patients) = Len(patients) + 1
               /\ r.db.prescriptions = prescriptions

\* C12: no two patients have the same file number, however the
\* create_prescription requests overlap.
C12_UniqueFileNumbers ==
    \A i, j \in DOMAIN patients :
        i # j => patients[i].file_number # patients[j].file_number

\* a worker has found no patient for its file number and another request
\* has inserted that patient since
C12_Witness ==
    \E w \in Workers :
        /\ inflight[w] # Idle
        /\ PatientsWith(DB, inflight[w].patient_file_number) # {}

\* C13 as stated: a request that found no patient for its file number, and
\* whose insert meets the patient another request has inserted since, goes
\* on with that patient and succeeds.
C13_RaceRefetch ==
    \A w \in Workers :
        (/\ inflight[w] # Idle
         /\ PatientsWith(DB, inflight[w].patient_file_number) # {}
         /\ Valid(DB, inflight[w]))
        => \A r \in {CreateResolved(DB, InsertPatient(DB, inflight[w], "ok"),
                                     inflight[w], "ok")} :
              /\ r.resp.code = 201
              /\ Created(r).patient_id
                    \in PatientsWith(DB, inflight[w].patient_file_number)

\* C14: no step changes or removes a patient, and a create_prescription for
\* a stored file number with another name than the stored one, whatever the
\* commit does, leaves the patients as they are.
C14_PatientNameFixed ==
    /\ [][\A i \in DOMAIN patients :
             i \in DOMAIN patients' /\ patients'[i] = patients[i]]_vars
    /\ [](\A data \in CreateRequests(DB), outcome \in CommitOutcomes :
            \A i \in PatientsWith(DB, data.patient_file_number) :
               patients[i].name # data.patient_name
               => CreatePrescription(DB, data, outcome).db.patients = patients)

\* a prescription was requested with another name than its patient has
C14_Witness ==
    \E p \in DOMAIN prescriptions :
        /\ patients[prescriptions[p].patient_id].file_number
              = requested[p].patient_file_number
        /\ patients[prescriptions[p].patient_id].name # requested[p].patient_name

\* C15: for every prescription, an update to the status it has is answered
\* 200 and leaves the whole store as it is, and an update to any status,
\* applied again to the store it left, is answered 200 and leaves that
\* store as it is.
C15_UpdateIdempotent ==
    \A id \in DOMAIN prescriptions :
        /\ \A r \in {UpdatePrescriptionStatus(DB, id,
                         [json |-> TRUE, status |-> prescriptions[id].status], "ok")} :
              r.resp.code = 200 /\ r.db = DB
        /\ \A s \in Statuses :
              \A once \in {UpdatePrescriptionStatus(DB, id,
                               [json |-> TRUE, status |-> s], "ok")} :
                 \A twice \in {UpdatePrescriptionStatus(once.db, id,
                                   [json |-> TRUE, status |-> s], "ok")} :
                    /\ twice.resp.code = 200
                    /\ twice.db = once.db
                    /\ twice.resp.body = once.resp.body

\* a prescription has been updated to "ready", and one more update to
\* "ready" is answered 200
C15_Witness ==
    \E p \in DOMAIN prescriptions :
        /\ prescriptions[p].status = "ready"
        /\ UpdatePrescriptionStatus(DB, p, [json |-> TRUE, status |-> "ready"],
                                    "ok").resp.code = 200

\* a drugs list that names one id twice
HasDuplicate(items) ==
    \E i, j \in DOMAIN items : i # j /\ items[i] = items[j]

Complete(data) ==
    /\ data.json
    /\ data.name # "" /\ data.strength # ""
    /\ data.instructions # "" /\ data.warnings # ""

\* C17: an add_drug with all four fields, when the store commits, is
\* answered 201 and appends one drug with those fields and a new id to the
\* catalog, whether or not such a drug is there already, and changes nothing
\* else; an add_drug without one of the fields is answered 400 and changes
\* nothing.
C17_AddDrug ==
    \A data \in DrugRequests, outcome \in CommitOutcomes :
        \A r \in {AddDrug(DB, data, outcome)} :
           /\ (Complete(data) /\ outcome = "ok")
              => /\ r.resp.code = 201
                 /\ r.resp.body.id = Len(drugs) + 1
                 /\ r.resp.body.id \notin DOMAIN drugs
                 /\ r.db = [DB EXCEPT !.drugs =
                              Append(@, [name |-> data.name,
                                         strength |-> data.strength,
                                         instructions |-> data.instructions,
                                         warnings |-> data.warnings])]
                 /\ r.resp.body.name = data.name
                 /\ r.resp.body.strength = data.strength
                 /\ r.resp.body.instructions = data.instructions
                 /\ r.resp.body.warnings = data.warnings
           /\ ~Complete(data) => (r.resp.code = 400 /\ r.db = DB)

\* the catalog holds the same drug under two ids, one of them prescribed
C17_Witness ==
    /\ Len(drugs) = 2
    /\ drugs[1] = drugs[2]
    /\ prescriptions # <<>>

\* the value a label prints after a key
Field(label, key) ==
    label[CHOOSE k \in DOMAIN label : label[k][1] = key][2]

\* C18: get_prescription_label of a stored prescription answers one label
\* per associated drug, the i-th label for the i-th drug get_prescription
\* lists, each with the stored name and file number of the patient and the
\* name, strength, instructions and warnings of its drug; for an id that is
\* not stored it answers 404.  It changes nothing.
C18_Labels ==
    \A id \in PrescriptionIdInputs(DB) :
        \A r \in {GetPrescriptionLabel(DB, id)}, g \in {GetPrescription(DB, id).resp} :
           /\ r.db = DB
           /\ id \notin DOMAIN prescriptions => r.resp.code = 404
           /\ id \in DOMAIN prescriptions
              => /\ r.resp.code = 200
                 /\ r.resp.body.prescription_id = id
                 /\ Len(r.resp.body.labels) = Cardinality(DrugsOf(DB, id))
                 /\ DOMAIN r.resp.body.labels = DOMAIN g.body.prescribed_drugs
                 /\ \A i \in DOMAIN r.resp.body.labels :
                       \A label \in {r.resp.body.labels[i]},
                          drug \in {drugs[g.body.prescribed_drugs[i].id]},
                          patient \in {patients[prescriptions[id].patient_id]} :
                          /\ Field(label, "name of patient") = patient.name
                          /\ Field(label, "file number") = patient.file_number
                          /\ Field(label, "drug name") = drug.name
                          /\ Field(label, "strength") = drug.strength
                          /\ Field(label, "instructions") = drug.instructions
                          /\ Field(label, "warning") = drug.warnings

\* a prescription has two drugs of two names, and its two labels name them
\* in the order of get_prescription
C18_Witness ==
    \E p \in DOMAIN prescriptions :
        \A labels \in {GetPrescriptionLabel(DB, p).resp.body.labels} :
            /\ Len(labels) = 2
            /\ Field(labels[1], "drug name") # Field(labels[2], "drug name")
            /\ Field(labels[1], "drug name")
                  = GetPrescription(DB, p).resp.body.prescribed_drugs[1].name

\* C19: when the first entry of the drugs list that is not a drug of the
\* catalog carries an id, a create_prescription that reaches the drug
\* validation is answered 400 "Drug with ID ... not found" with that id,
\* whatever the entries after it are (other unknown ids, or entries
\* without an id).
C19_FirstMissingDrug ==
    \A data \in CreateRequests(DB), outcome \in CommitOutcomes :
        \A r \in {CreatePrescription(DB, data, outcome)},
           bad \in {{k \in DOMAIN data.drugs : data.drugs[k] \notin DOMAIN drugs}} :
            (/\ WellFormed(data)
             /\ data.doctor_id \in DOMAIN users
             /\ users[data.doctor_id].role = "doctor"
             /\ bad # {}
             /\ r.resp.message # "Error creating patient")
            => \A first \in {Min(bad)} :
                  data.drugs[first] # 0
                  => /\ r.resp.code = 400
                     /\ r.resp.message = "Drug with ID not found"
                     /\ r.resp.body.drug_id = data.drugs[first]

\* the catalog holds a drug; of two unknown ids the request names, the
\* answer carries the one that comes first, in either order, and an entry
\* without an id after an unknown id does not change the answer
C19_Witness ==
    /\ drugs # <<>>
    /\ \A a \in {Len(drugs) + 1}, b \in {Len(drugs) + 2} :
        \E x, y, z \in CreateRequests(DB) :
            /\ x.drugs = <<a, b>> /\ y.drugs = <<b, a>> /\ z.drugs = <<a, 0>>
            /\ CreatePrescription(DB, x, "ok").resp.body.drug_id = a
            /\ CreatePrescription(DB, y, "ok").resp.body.drug_id = b
            /\ CreatePrescription(DB, z, "ok").resp.message = "Drug with ID not found"

\* C20: an update_prescription_status answered 200 changes the status of
\* its prescription and nothing else in the store: not the patient, doctor,
\* created_at or drugs of that prescription, no other prescription, no
\* patient, drug, user or association; and no step changes the patient,
\* doctor or created_at of a prescription that exists.
C20_UpdateFrame ==
    /\ [](\A id \in PrescriptionIdInputs(DB), data \in StatusRequests :
            \A r \in {UpdatePrescriptionStatus(DB, id, data, "ok")} :
               r.resp.code = 200
               => /\ r.db.prescriptions[id].patient_id = prescriptions[id].patient_id
                  /\ r.db.prescriptions[id].doctor_id = prescriptions[id].doctor_id
                  /\ r.db.prescriptions[id].created_at = prescriptions[id].created_at
                  /\ r.db.prescriptions[id].status = data.status
                  /\ DrugsOf(r.db, id) = DrugsOf(DB, id)
                  /\ DOMAIN r.db.prescriptions = DOMAIN prescriptions
                  /\ \A p \in DOMAIN prescriptions :
                        p # id => r.db.prescriptions[p] = prescriptions[p]
                  /\ r.db.patients = patients
                  /\ r.db.drugs = drugs
                  /\ r.db.users = users
                  /\ r.db.association = association)
    /\ [][\A p \in DOMAIN prescriptions :
             /\ p \in DOMAIN prescriptions'
             /\ prescriptions'[p].patient_id = prescriptions[p].patient_id
             /\ prescriptions'[p].doctor_id = prescriptions[p].doctor_id
             /\ prescriptions'[p].created_at = prescriptions[p].created_at]_vars

\* a prescription has been updated to "dispensed" and still belongs to the
\* patient of the file number it was requested with, to the doctor, and
\* carries a created_at before the clock
C20_Witness ==
    \E p \in DOMAIN prescriptions :
        /\ prescriptions[p].status = "dispensed"
        /\ patients[prescriptions[p].patient_id].file_number
              = requested[p].patient_file_number
        /\ users[prescriptions[p].doctor_id].role = "doctor"
        /\ prescriptions[p].created_at < clock

\* C21: an update_prescription_status of a stored prescription whose commit
\* fails is answered 500 "Error updating prescription status" and leaves
\* the store as it was: get_prescription answers the old status and the
\* feed of pending prescriptions is the old feed.
C21_UpdateCommitFails ==
    \A id \in DOMAIN prescriptions, s \in Statuses :
        \A r \in {UpdatePrescriptionStatus(DB, id, [json |-> TRUE, status |-> s],
                                            "commit_fails")} :
           /\ r.resp.code = 500
           /\ r.resp.message = "Error updating prescription status"
           /\ r.db = DB
           /\ r.db.prescriptions[id].status = prescriptions[id].status
           /\ GetPrescription(r.db, id).resp.body.status = prescriptions[id].status
           /\ Feed(r.db) = Feed(DB)

\* a prescription has been updated to "ready", and the update to
\* "dispensed" whose commit fails is answered 500 and leaves it "ready"
C21_Witness ==
    \E p \in DOMAIN prescriptions :
        /\ prescriptions[p].status = "ready"
        /\ \A r \in {UpdatePrescriptionStatus(DB, p,
                         [json |-> TRUE, status |-> "dispensed"], "commit_fails")} :
              /\ r.resp.code = 500
              /\ GetPrescription(r.db, p).resp.body.status = "ready"

\* the drugs of the catalog that have a name
Named(db, n) == {d \in DOMAIN db.drugs : db.drugs[d].name = n}

\* C22: the statistics have one entry per name of the catalog, as many
\* entries as there are names and not as there are drugs, and the entry of a
\* name is the number of prescriptions of the drug of that name that
\* Drug.query.all() visits last, not the sum over the drugs of that name.
C22_SameNameOverwrites ==
    \A counts \in {GetDrugPrescriptionStatistics(DB).resp.body} :
        /\ DOMAIN counts = {drugs[d].name : d \in DOMAIN drugs}
        /\ Cardinality(DOMAIN counts) <= Len(drugs)
        /\ \A n \in DOMAIN counts :
              counts[n] = Cardinality(DrugPrescriptions(DB, Max(Named(DB, n))))

\* two drugs have one name, a prescription references the first of them
\* only, and the one entry of the statistics says 0
C22_Witness ==
    /\ Len(drugs) = 2
    /\ drugs[1].name = drugs[2].name
    /\ DrugPrescriptions(DB, 1) # {}
    /\ DrugPrescriptions(DB, 2) = {}
    /\ \A counts \in {GetDrugPrescriptionStatistics(DB).resp.body} :
          /\ Cardinality(DOMAIN counts) = 1
          /\ counts[drugs[1].name] = 0

\* C23: an update_prescription_status without a status, or with an empty
\* one, is answered 400, for an id that is stored and for one that is not;
\* one with a status for an id that is not stored is answered 404; and
\* both leave the store as it is.
C23_UpdateErrors ==
    \A id \in PrescriptionIdInputs(DB), data \in StatusRequests,
       outcome \in CommitOutcomes :
        \A r \in {UpdatePrescriptionStatus(DB, id, data, outcome)} :
           /\ data.status = ""
              => /\ r.resp.code = 400
                 /\ data.json => r.resp.message = "New status is required"
                 /\ r.db = DB
           /\ (data.status # "" /\ id \notin DOMAIN prescriptions)
              => /\ r.resp.code = 404
                 /\ r.resp.message = "Prescription not found"
                 /\ r.db = DB

\* a prescription is in the store; for the id after it, the update with an
\* empty status is answered 400 and the update to "ready" 404
C23_Witness ==
    /\ prescriptions # <<>>
    /\ \A id \in {Len(prescriptions) + 1} :
          /\ UpdatePrescriptionStatus(DB, id, [json |-> TRUE, status |-> ""],
                                      "ok").resp.code = 400
          /\ UpdatePrescriptionStatus(DB, id, [json |-> TRUE, status |-> "ready"],
                                      "ok").resp.code = 404

\* C24: a create_prescription without JSON, without one of its fields, with
\* drugs that are no list or an empty one, or with a doctor_id that is no
\* doctor, is answered 400 or 403 and leaves the whole store as it is,
\* whatever the commit would do, also when its file number is not stored.
C24_EarlyFailureFrame ==
    \A data \in CreateRequests(DB), outcome \in CommitOutcomes :
        \A r \in {CreatePrescription(DB, data, outcome)} :
            (\/ ~WellFormed(data)
             \/ ~(data.doctor_id \in DOMAIN users
                  /\ users[data.doctor_id].role = "doctor"))
            => /\ r.resp.code \in {400, 403}
               /\ r.db = DB
               /\ PatientsWith(r.db, data.patient_file_number)
                     = PatientsWith(DB, data.patient_file_number)

\* a patient is in the store, and the requests of a doctor_id that is no
\* user and of a drugs value that is no list, for a file number that is
\* not stored, are answered 403 and 400
C24_Witness ==
    /\ patients # <<>>
    /\ \E x, y \in CreateRequests(DB) :
         /\ x.doctor_id = 3 /\ WellFormed(x)
         /\ PatientsWith(DB, x.patient_file_number) = {}
         /\ CreatePrescription(DB, x, "ok").resp.code = 403
         /\ ~y.drugs_is_list
         /\ PatientsWith(DB, y.patient_file_number) = {}
         /\ CreatePrescription(DB, y, "ok").resp.code = 400

\* a drugs list with an entry that the validation refuses
FailsValidation(db, items) ==
    \E i \in DOMAIN items : items[i] \notin DOMAIN db.drugs

\* C25: a well-formed create_prescription of a doctor for a file number
\* that is not stored, with an entry that is no drug of the catalog or has
\* no drug_id, is answered 400 when the store commits and leaves its patient
\* in the store, with no prescription and no association; a valid
\* create_prescription for that file number then succeeds for that patient
\* and leaves the patient the name of the request that failed.
C25_OrphanPatient ==
    \A data \in CreateRequests(DB) :
        (/\ WellFormed(data)
         /\ data.doctor_id \in DOMAIN users
         /\ users[data.doctor_id].role = "doctor"
         /\ PatientsWith(DB, data.patient_file_number) = {}
         /\ FailsValidation(DB, data.drugs))
        => \A r \in {CreatePrescription(DB, data, "ok")} :
              /\ r.resp.code = 400
              /\ r.db.patients = Append(patients,
                                        [name |-> data.patient_name,
                                         file_number |-> data.patient_file_number])
              /\ r.db.prescriptions = prescriptions
              /\ r.db.association = association
              /\ \A later \in {x \in CreateRequests(r.db) :
                                  /\ x.patient_file_number = data.patient_file_number
                                  /\ Valid(r.db, x)
                                  /\ ~HasDuplicate(x.drugs)} :
                    \A q \in {CreatePrescription(r.db, later, "ok")} :
                       /\ q.resp.code = 201
                       /\ Created(q).patient_id = Len(patients) + 1
                       /\ q.db.patients = r.db.patients
                       /\ q.db.patients[Created(q).patient_id].name = data.patient_name

\* the one prescription of a patient was requested with another name than
\* the patient has: the patient is the one a request that failed has left
C25_Witness ==
    \E p \in DOMAIN prescriptions :
        /\ patients[prescriptions[p].patient_id].name # requested[p].patient_name
        /\ \A q \in DOMAIN prescriptions :
              prescriptions[q].patient_id = prescriptions[p].patient_id => q = p

\* C26: get_prescription, get_prescription_label, get_drugs,
\* get_dashboard_notifications and get_drug_prescription_statistics leave
\* users, patients, drugs, prescriptions and associations as they are, for
\* an id that is stored (200) and for one that is not (404).
C26_ReadsChangeNothing ==
    /\ \A id \in PrescriptionIdInputs(DB) :
          \A r \in {GetPrescription(DB, id), GetPrescriptionLabel(DB, id)} :
             /\ r.db = DB
             /\ r.resp.code = IF id \in DOMAIN prescriptions THEN 200 ELSE 404
    /\ \A r \in {GetDrugs(DB), GetDashboardNotifications(DB),
                   GetDrugPrescriptionStatistics(DB)} :
          r.db = DB /\ r.resp.code = 200

\* a pending prescription is in the store: its labels are answered 200, the
\* labels of the id after it 404, and get_drugs lists the catalog
C26_Witness ==
    /\ \E p \in DOMAIN prescriptions :
          /\ prescriptions[p].status = "pending"
          /\ GetPrescriptionLabel(DB, p).resp.code = 200
    /\ GetPrescriptionLabel(DB, Len(prescriptions) + 1).resp.code = 404
    /\ Len(GetDrugs(DB).resp.body) = Len(drugs)
    /\ drugs # <<>>

====
